---------------------------- MODULE Spec2Model ----------------------------
(***************************************************************************)
(* Model of the Web Canvas backend of piet (piet-web/src/lib.rs).          *)
(*                                                                         *)
(* State of a WebRenderContext: the saved-state stack canvas_states, the   *)
(* deferred-error slot err, and the native CanvasRenderingContext2d ctx    *)
(* (its current drawing state and its own stack of saved drawing states).  *)
(* Every operation of the RenderContext implementation is one action.  The *)
(* outcome of a native call that returns a Result is an input of the       *)
(* action, drawn from NativeResults.  A Rust panic (an unwrap of a failed  *)
(* native call) ends the program: aborted becomes TRUE and nothing runs    *)
(* afterwards.                                                             *)
(*                                                                         *)
(* last is the record of the operation executed last: its name, its data   *)
(* (the arguments; for restore the snapshots it popped), what it returned, *)
(* the native methods it invoked (in order), the failures those native     *)
(* calls returned (in order), and, for a stroke, whether it repeats the     *)
(* width and style of a stroke executed just before it.                    *)
(***************************************************************************)
EXTENDS Integers, Sequences, FiniteSets, TLC

VARIABLES canvas_states, err, ctx, aborted, last

vars == <<canvas_states, err, ctx, aborted, last>>

(***************************************************************************)
(* Bounds of the model.                                                    *)
(***************************************************************************)
\* save() is taken only while the saved-state stack is shorter than this.
MaxDepth == 2
\* number of lines of a text layout
MaxLines == 2
\* number of stops of a gradient
MaxStops == 2
\* number of pixels (width * height) of an uploaded image
MaxPixels == 2

(***************************************************************************)
(* f64 values.  Finite values are integers; NaN is a value that is unequal *)
(* to every f64, itself included (f64's PartialEq).                        *)
(***************************************************************************)
NaN == -999

IsNaN(x) == x = NaN

F64Ne(a, b) == IsNaN(a) \/ IsNaN(b) \/ a # b

\* [f64] != [f64]: slices differ in length or in some element
SliceNe(p, q) ==
    \/ Len(p) # Len(q)
    \/ \E i \in 1..Len(p) : F64Ne(p[i], q[i])

\* derived PartialEq of LineJoin: <<kind, limit>>, limit read for Miter only
LineJoinNe(a, b) ==
    \/ a[1] # b[1]
    \/ a[1] = "Miter" /\ F64Ne(a[2], b[2])

(***************************************************************************)
(* Errors.                                                                 *)
(***************************************************************************)
JsErrors == {"E1", "E2"}

NativeResults == {"ok"} \cup JsErrors

\* results of the native calls whose failure value is never stored
CallResults == {"ok", "E1"}

Ok == <<"Ok">>

\* WrapError::wrap boxes the JsValue into WrappedJs ("Canvas error: ...")
wrap(e) == <<"Canvas error", e>>

(***************************************************************************)
(* CanvasState and StrokeStyle.                                            *)
(***************************************************************************)
CanvasStateDefault ==
    [ line_cap         |-> "Butt",
      line_dash        |-> <<>>,
      line_dash_offset |-> 0,
      line_join        |-> <<"Miter", 10>>,
      line_width       |-> 1 ]

\* piet's StrokeStyle::default(): what stroke() passes on as None
StrokeStyleDefault ==
    [ line_join    |-> <<"Miter", 10>>,
      line_cap     |-> "Butt",
      dash_pattern |-> <<>>,
      dash_offset  |-> 0 ]

\* the styles stroke_styled() is called with: round cap and join; a miter
\* join of limit 4 with a dash pattern and a dash offset
RoundStyle ==
    [ line_join    |-> <<"Round", 0>>,
      line_cap     |-> "Round",
      dash_pattern |-> <<>>,
      dash_offset  |-> 0 ]

DashedStyle ==
    [ line_join    |-> <<"Miter", 4>>,
      line_cap     |-> "Butt",
      dash_pattern |-> <<2, 1>>,
      dash_offset  |-> 1 ]

\* the widths stroke() is called with
StrokeWidths == {1, NaN}

\* the <<width, style>> pairs stroke_styled() is called with
StyledInputs == { <<5, RoundStyle>>, <<2, DashedStyle>> }

\* a style whose dash pattern has an odd number of lengths
OddDashStyle ==
    [ line_join    |-> <<"Bevel", 0>>,
      line_cap     |-> "Square",
      dash_pattern |-> <<3>>,
      dash_offset  |-> 2 ]

\* <<width, style>> pairs with a value the canvas does not store as given:
\* a width of zero, a miter limit of NaN, a dash pattern of odd length
UnstoredInputs ==
    { <<0, [DashedStyle EXCEPT !.line_join = <<"Miter", NaN>>]>>, <<2, OddDashStyle>> }

\* StrokeStyle::miter_limit(): Some(limit) for a miter join
miter_limit(style) ==
    IF style.line_join[1] = "Miter" THEN <<style.line_join[2]>> ELSE <<>>

convert_line_cap(line_cap) ==
    CASE line_cap = "Butt"   -> "butt"
      [] line_cap = "Round"  -> "round"
      [] line_cap = "Square" -> "square"

convert_line_join(line_join) ==
    CASE line_join[1] = "Miter" -> "miter"
      [] line_join[1] = "Round" -> "round"
      [] line_join[1] = "Bevel" -> "bevel"

\* a Float64Array of the same length, filled element by element
convert_dash_pattern(pattern) == [i \in 1..Len(pattern) |-> pattern[i]]

(***************************************************************************)
(* Affine transforms: the six coefficients, composed as matrices.          *)
(***************************************************************************)
AffineIdentity == <<1, 0, 0, 1, 0, 0>>

AffineFlipX == <<-1, 0, 0, 1, 0, 0>>

\* the arguments transform() is called with
Affines == {AffineFlipX}

\* the canvas' transform(a..f): current := current * m
AffineMul(c, m) ==
    << c[1] * m[1] + c[3] * m[2],
       c[2] * m[1] + c[4] * m[2],
       c[1] * m[3] + c[3] * m[4],
       c[2] * m[3] + c[4] * m[4],
       c[1] * m[5] + c[3] * m[6] + c[5],
       c[2] * m[5] + c[4] * m[6] + c[6] >>

(***************************************************************************)
(* The native surface, CanvasRenderingContext2d: the drawing state and the *)
(* stack of drawing states that save()/restore() push and pop.             *)
(***************************************************************************)
NativeDefault ==
    [ lineWidth      |-> 1,
      lineCap        |-> "butt",
      lineJoin       |-> "miter",
      miterLimit     |-> 10,
      lineDash       |-> <<>>,
      lineDashOffset |-> 0,
      transform      |-> AffineIdentity,
      clip           |-> {} ]

NativeInit == [cur |-> NativeDefault, stack |-> <<>>]

\* the stroke part of a native drawing state
NativeStroke(d) ==
    << d.lineWidth, d.lineCap, d.lineJoin, d.miterLimit, d.lineDash, d.lineDashOffset >>

NativeSave(n) == [n EXCEPT !.stack = Append(@, n.cur)]

\* restore() on an empty native stack does nothing
NativeRestore(n) ==
    IF n.stack = <<>>
    THEN n
    ELSE [cur |-> n.stack[Len(n.stack)], stack |-> SubSeq(n.stack, 1, Len(n.stack) - 1)]

\* lineWidth, miterLimit: zero, negative and non-finite values are ignored
NativeSetLineWidth(n, v) ==
    IF IsNaN(v) \/ v <= 0 THEN n ELSE [n EXCEPT !.cur.lineWidth = v]

NativeSetMiterLimit(n, v) ==
    IF IsNaN(v) \/ v <= 0 THEN n ELSE [n EXCEPT !.cur.miterLimit = v]

NativeSetLineJoin(n, s) == [n EXCEPT !.cur.lineJoin = s]

NativeSetLineCap(n, s) == [n EXCEPT !.cur.lineCap = s]

\* setLineDash: a list with a negative or non-finite element is ignored; a
\* list of odd length is stored concatenated with itself
NativeSetLineDash(n, segs) ==
    IF \E i \in 1..Len(segs) : IsNaN(segs[i]) \/ segs[i] < 0
    THEN n
    ELSE [n EXCEPT !.cur.lineDash = IF Len(segs) % 2 = 1 THEN segs \o segs ELSE segs]

NativeSetLineDashOffset(n, v) ==
    IF IsNaN(v) THEN n ELSE [n EXCEPT !.cur.lineDashOffset = v]

NativeTransform(n, a) == [n EXCEPT !.cur.transform = AffineMul(@, a)]

\* clip(): the clipping region becomes its intersection with the path
NativeClip(n, shape) == [n EXCEPT !.cur.clip = @ \cup {shape}]

(***************************************************************************)
(* &mut self while an operation runs: the fields of the context, the       *)
(* native calls made so far, the failures they returned, and whether the   *)
(* operation has panicked.                                                 *)
(***************************************************************************)
Self ==
    [ ctx           |-> ctx,
      err           |-> err,
      canvas_states |-> canvas_states,
      calls         |-> <<>>,
      fails         |-> <<>>,
      panicked      |-> FALSE ]

Top(states) == states[Len(states)]

Call(rc, name) == [rc EXCEPT !.calls = Append(@, name)]

Failed(rc, name, e) == [rc EXCEPT !.calls = Append(@, name), !.fails = Append(@, e)]

Panic(rc) == [rc EXCEPT !.panicked = TRUE]

\* WebRenderContext::new
Init ==
    /\ canvas_states = <<CanvasStateDefault>>
    /\ err = Ok
    /\ ctx = NativeInit
    /\ aborted = FALSE
    /\ last = [ op     |-> "new",
                data   |-> <<>>,
                result |-> <<"unit">>,
                calls  |-> <<>>,
                fails  |-> <<>>,
                repeat |-> FALSE ]

(***************************************************************************)
(* Brushes, colours, shapes, images, text layouts.                         *)
(***************************************************************************)
\* Color::as_rgba_u32, the packed u32 written as its four bytes <<r, g, b, a>>:
\* opaque red and half-transparent black
Colors == { <<255, 0, 0, 255>>, <<0, 0, 0, 128>> }

\* Brush::Solid(u32) | Brush::Gradient(CanvasGradient); a native gradient is
\* the sequence of colour stops it has accepted
Brushes == { <<"Solid", <<255, 0, 0, 255>>>>, <<"Gradient", <<>>>> }

\* the brushes stroke() and stroke_styled() are called with
StrokeBrushes == { <<"Solid", <<255, 0, 0, 255>>>> }

\* WebTextLayout::color() of the layouts drawn
TextColor == <<0, 0, 0, 255>>

\* Rect as <<x0, y0, x1, y1>>
Shapes == { <<0, 0, 10, 10>> }

\* HtmlCanvasElement::offset_width / offset_height of the attached canvas
CanvasElement == [offset_width |-> 200, offset_height |-> 100]

\* the canvas elements ctx.canvas() returns: the one above, and one of the
\* size a canvas element has by default
CanvasElements == { CanvasElement, [offset_width |-> 300, offset_height |-> 150] }

\* WebImage {width, height}
Images == { [width |-> 4, height |-> 2] }

byte_to_frac(byte) == ((byte % 256) * 1000 * 2 + 255) \div (2 * 255)

\* "#rrggbb" for an opaque colour, "rgba(r,g,b,a)" with a in thousandths
format_color(rgba) ==
    LET rgb == rgba[1] * 65536 + rgba[2] * 256 + rgba[3]
        a   == rgba[4]
    IN  IF a = 255
        THEN <<"#", rgb>>
        ELSE <<"rgba", (rgb \div 65536) % 256, (rgb \div 256) % 256, rgb % 256,
               byte_to_frac(a)>>

brush_value(brush) ==
    IF brush[1] = "Solid" THEN format_color(brush[2]) ELSE brush[2]

solid_brush(color) == <<"Solid", color>>

set_brush(rc, brush, is_fill) ==
    IF is_fill
    THEN Call(rc, <<"set_fill_style", brush_value(brush)>>)
    ELSE Call(rc, <<"set_stroke_style", brush_value(brush)>>)

\* the path elements of a Rect: move, three lines, close
set_path(rc, shape) ==
    LET c0 == Call(rc, <<"begin_path">>)
        c1 == Call(c0, <<"move_to", shape[1], shape[2]>>)
        c2 == Call(c1, <<"line_to", shape[3], shape[2]>>)
        c3 == Call(c2, <<"line_to", shape[3], shape[4]>>)
        c4 == Call(c3, <<"line_to", shape[1], shape[4]>>)
    IN  Call(c4, <<"close_path">>)

(***************************************************************************)
(* set_stroke: each parameter is written to the native surface when it     *)
(* differs from the snapshot on top of canvas_states, and the snapshot is  *)
(* updated.  dashRes is what the native set_line_dash returns if called.   *)
(***************************************************************************)
SetTop(rc, field, v) ==
    [rc EXCEPT !.canvas_states[Len(rc.canvas_states)][field] = v]

\* the width is written and the snapshot is not updated
set_stroke_width_StaleSnapshot(rc, width) ==
    IF F64Ne(width, Top(rc.canvas_states).line_width)
    THEN [Call(rc, <<"set_line_width", width>>) EXCEPT !.ctx = NativeSetLineWidth(@, width)]
    ELSE rc

set_stroke_width(rc, width) ==
    IF F64Ne(width, Top(rc.canvas_states).line_width)
    THEN SetTop([Call(rc, <<"set_line_width", width>>)
                   EXCEPT !.ctx = NativeSetLineWidth(@, width)],
                "line_width", width)
    ELSE rc

\* the join is written without its miter limit
set_stroke_join_NoMiterLimit(rc, style) ==
    IF LineJoinNe(style.line_join, Top(rc.canvas_states).line_join)
    THEN SetTop([Call(rc, <<"set_line_join", convert_line_join(style.line_join)>>)
                   EXCEPT !.ctx = NativeSetLineJoin(@, convert_line_join(style.line_join))],
                "line_join", style.line_join)
    ELSE rc

set_stroke_join(rc, style) ==
    IF LineJoinNe(style.line_join, Top(rc.canvas_states).line_join)
    THEN LET j == [Call(rc, <<"set_line_join", convert_line_join(style.line_join)>>)
                     EXCEPT !.ctx = NativeSetLineJoin(@, convert_line_join(style.line_join))]
             m == IF miter_limit(style) # <<>>
                  THEN [Call(j, <<"set_miter_limit", miter_limit(style)[1]>>)
                          EXCEPT !.ctx = NativeSetMiterLimit(@, miter_limit(style)[1])]
                  ELSE j
         IN  SetTop(m, "line_join", style.line_join)
    ELSE rc

set_stroke_cap(rc, style) ==
    IF style.line_cap # Top(rc.canvas_states).line_cap
    THEN SetTop([Call(rc, <<"set_line_cap", convert_line_cap(style.line_cap)>>)
                   EXCEPT !.ctx = NativeSetLineCap(@, convert_line_cap(style.line_cap))],
                "line_cap", style.line_cap)
    ELSE rc

\* .unwrap() of the native result: a failure panics
set_stroke_dash(rc, style, dashRes) ==
    IF SliceNe(style.dash_pattern, Top(rc.canvas_states).line_dash)
    THEN LET dash_segs == convert_dash_pattern(style.dash_pattern)
         IN  IF dashRes = "ok"
             THEN SetTop([Call(rc, <<"set_line_dash", dash_segs>>)
                            EXCEPT !.ctx = NativeSetLineDash(@, dash_segs)],
                         "line_dash", style.dash_pattern)
             ELSE Panic(Failed(rc, <<"set_line_dash", dash_segs>>, dashRes))
    ELSE rc

set_stroke_dash_offset(rc, style) ==
    IF F64Ne(style.dash_offset, Top(rc.canvas_states).line_dash_offset)
    THEN SetTop([Call(rc, <<"set_line_dash_offset", style.dash_offset>>)
                   EXCEPT !.ctx = NativeSetLineDashOffset(@, style.dash_offset)],
                "line_dash_offset", style.dash_offset)
    ELSE rc

set_stroke(rc, width, style, dashRes) ==
    LET s1 == set_stroke_width(rc, width)
        s2 == set_stroke_join(s1, style)
        s3 == set_stroke_cap(s2, style)
        s4 == set_stroke_dash(s3, style, dashRes)
    IN  IF s4.panicked THEN s4 ELSE set_stroke_dash_offset(s4, style)

(***************************************************************************)
(* The operations of RenderContext, as functions of &mut self.             *)
(***************************************************************************)
\* status that returns the error and leaves it in the slot
status_NoClear(rc) == [rc |-> rc, res |-> rc.err]

\* std::mem::replace(&mut self.err, Ok(()))
status(rc) == [rc |-> [rc EXCEPT !.err = Ok], res |-> rc.err]

finish(rc) == status(rc)

fill(rc, shape, brush) ==
    Call(set_brush(set_path(rc, shape), brush, TRUE), <<"fill", "nonzero">>)

fill_even_odd(rc, shape, brush) ==
    Call(set_brush(set_path(rc, shape), brush, TRUE), <<"fill", "evenodd">>)

clip(rc, shape) ==
    [Call(set_path(rc, shape), <<"clip", "nonzero">>) EXCEPT !.ctx = NativeClip(@, shape)]

\* stroke passes None, stroke_styled Some(style); set_stroke resolves None
\* to StrokeStyle::default()
stroke_styled(rc, shape, brush, width, style, dashRes) ==
    LET s == set_stroke(set_path(rc, shape), width, style, dashRes)
    IN  IF s.panicked THEN s ELSE Call(set_brush(s, brush, FALSE), <<"stroke">>)

stroke(rc, shape, brush, width, dashRes) ==
    LET s == set_stroke(set_path(rc, shape), width, StrokeStyleDefault, dashRes)
    IN  IF s.panicked THEN s ELSE Call(set_brush(s, brush, FALSE), <<"stroke">>)

\* save without the native save
save_NoNativeSave(rc) ==
    [ rc  |-> [rc EXCEPT !.canvas_states = Append(@, Top(@))],
      res |-> Ok ]

save(rc) ==
    [ rc  |-> [Call(rc, <<"save">>) EXCEPT
                 !.ctx = NativeSave(@),
                 !.canvas_states = Append(@, Top(@))],
      res |-> Ok ]

\* restore with the native restore outside the guard
restore_NativeUnguarded(rc) ==
    [ rc  |-> [Call(rc, <<"restore">>) EXCEPT
                 !.canvas_states = IF Len(@) > 1 THEN SubSeq(@, 1, Len(@) - 1) ELSE @,
                 !.ctx = NativeRestore(@)],
      res |-> Ok ]

\* restore that pops the snapshot and leaves the native surface alone
restore_NoNativeRestore(rc) ==
    [ rc  |-> IF Len(rc.canvas_states) > 1
              THEN [Call(rc, <<"restore">>) EXCEPT
                      !.canvas_states = SubSeq(@, 1, Len(@) - 1)]
              ELSE rc,
      res |-> Ok ]

restore(rc) ==
    [ rc  |-> IF Len(rc.canvas_states) > 1
              THEN [Call(rc, <<"restore">>) EXCEPT
                      !.canvas_states = SubSeq(@, 1, Len(@) - 1),
                      !.ctx = NativeRestore(@)]
              ELSE rc,
      res |-> Ok ]

\* the closure draw_image hands to with_save: the native draw call on
\* f.src and f.dst, whose result f.res is wrapped and returned
draw_image_closure(rc, f) ==
    IF f.res = "ok"
    THEN [rc |-> Call(rc, <<"draw_image", f.src, f.dst>>), res |-> Ok]
    ELSE [rc |-> Failed(rc, <<"draw_image", f.src, f.dst>>, f.res), res |-> wrap(f.res)]

\* RenderContext::with_save (provided method of the trait): save, run the
\* closure f, restore whether or not f failed; the first failure is the result
with_save(rc, f) ==
    LET s == save(rc)
        r == draw_image_closure(s.rc, f)
        t == restore(r.rc)
    IN  [rc |-> t.rc, res |-> IF r.res = Ok THEN t.res ELSE r.res]

\* one native fill_text per line; a failure is stored in err
RECURSIVE draw_lines(_, _, _)
draw_lines(rc, lineRes, i) ==
    IF i > Len(lineRes)
    THEN rc
    ELSE draw_lines(
             IF lineRes[i] = "ok"
             THEN Call(rc, <<"fill_text", i>>)
             ELSE [Failed(rc, <<"fill_text", i>>, lineRes[i])
                     EXCEPT !.err = wrap(lineRes[i])],
             lineRes, i + 1)

\* a failing line is stored only while the slot is empty
RECURSIVE draw_lines_FirstFailureWins(_, _, _)
draw_lines_FirstFailureWins(rc, lineRes, i) ==
    IF i > Len(lineRes)
    THEN rc
    ELSE draw_lines_FirstFailureWins(
             IF lineRes[i] = "ok"
             THEN Call(rc, <<"fill_text", i>>)
             ELSE [Failed(rc, <<"fill_text", i>>, lineRes[i])
                     EXCEPT !.err = IF @ = Ok THEN wrap(lineRes[i]) ELSE @],
             lineRes, i + 1)

draw_text_FirstFailureWins(rc, color, lineRes) ==
    LET s0 == [Call(rc, <<"save">>) EXCEPT !.ctx = NativeSave(@)]
        s1 == Call(s0, <<"set_font">>)
        s2 == set_brush(s1, solid_brush(color), TRUE)
        s3 == draw_lines_FirstFailureWins(s2, lineRes, 1)
    IN  [Call(s3, <<"restore">>) EXCEPT !.ctx = NativeRestore(@)]

\* lineRes: the result of the native fill_text of each line of the layout
draw_text(rc, color, lineRes) ==
    LET s0 == [Call(rc, <<"save">>) EXCEPT !.ctx = NativeSave(@)]
        s1 == Call(s0, <<"set_font">>)
        s2 == set_brush(s1, solid_brush(color), TRUE)
        s3 == draw_lines(s2, lineRes, 1)
    IN  [Call(s3, <<"restore">>) EXCEPT !.ctx = NativeRestore(@)]

\* save, draw and restore in sequence, returning at the failure of the draw
draw_image_EarlyReturn(rc, image, src_rect, dst_rect, drawRes) ==
    LET src == IF src_rect = <<>>
               THEN <<0, 0, image.width, image.height>>
               ELSE src_rect[1]
        s   == save(rc).rc
    IN  IF drawRes = "ok"
        THEN restore(Call(s, <<"draw_image", src, dst_rect>>)).rc
        ELSE [Failed(s, <<"draw_image", src, dst_rect>>, drawRes) EXCEPT !.err = wrap(drawRes)]

\* src_rect is <<>> for None, <<rect>> for Some(rect)
draw_image(rc, image, src_rect, dst_rect, drawRes) ==
    LET src == IF src_rect = <<>>
               THEN <<0, 0, image.width, image.height>>
               ELSE src_rect[1]
        result == with_save(rc, [src |-> src, dst |-> dst_rect, res |-> drawRes])
    IN  IF result.res # Ok
        THEN [result.rc EXCEPT !.err = result.res]
        ELSE result.rc

\* let _ = self.ctx.transform(..): the native result is dropped
transform(rc, a, res) ==
    IF res = "ok"
    THEN [Call(rc, <<"transform", a>>) EXCEPT !.ctx = NativeTransform(@, a)]
    ELSE Failed(rc, <<"transform", a>>, res)

matrix_to_affine(m) == <<m[1], m[2], m[3], m[4], m[5], m[6]>>

\* self.ctx.get_transform().unwrap()
current_transform(rc, res) ==
    IF res = "ok"
    THEN [rc |-> Call(rc, <<"get_transform">>), res |-> matrix_to_affine(rc.ctx.cur.transform)]
    ELSE [rc |-> Panic(Failed(rc, <<"get_transform">>, res)), res |-> "panic"]

\* clear that fills the whole canvas whatever region it is given
clear_RegionIgnored(rc, region, color, canvas) ==
    IF canvas = <<>>
    THEN Call(rc, <<"canvas">>)
    ELSE fill(Call(rc, <<"canvas">>),
              <<0, 0, canvas[1].offset_width, canvas[1].offset_height>>,
              solid_brush(color))

\* canvas is <<>> when the native canvas() returns None; region is <<>> for None
clear(rc, region, color, canvas) ==
    IF canvas = <<>>
    THEN Call(rc, <<"canvas">>)
    ELSE LET rect == IF region = <<>>
                     THEN <<0, 0, canvas[1].offset_width, canvas[1].offset_height>>
                     ELSE region[1]
         IN  fill(Call(rc, <<"canvas">>), rect, solid_brush(color))

blurred_rect(rc, rect, blur_radius, brush) ==
    LET color == IF brush[1] = "Solid" THEN format_color(brush[2]) ELSE "#f0f"
        b0 == Call(rc, <<"set_shadow_blur", blur_radius>>)
        b1 == Call(b0, <<"set_shadow_color", color>>)
        b2 == Call(b1, <<"fill_rect", rect[1], rect[2], rect[3] - rect[1], rect[4] - rect[2]>>)
    IN  Call(b2, <<"set_shadow_color", "none">>)

(***************************************************************************)
(* gradient.  The native gradient API throws IndexSizeError for a negative *)
(* radius and for a colour stop whose offset is outside [0, 1].            *)
(***************************************************************************)
\* offsets of colour stops: 0 and 1 are in range, 2 is not
StopPositions == {0, 1, 2}

RECURSIVE SeqsUpTo(_, _)
SeqsUpTo(S, n) ==
    IF n = 0
    THEN {<<>>}
    ELSE LET shorter == SeqsUpTo(S, n - 1)
         IN  shorter \cup {Append(q, x) : q \in {t \in shorter : Len(t) = n - 1}, x \in S}

\* GradientStop {pos, color}
GradientStops == {[pos |-> p, color |-> <<255, 0, 0, 255>>] : p \in StopPositions}

\* FixedGradient::Linear / FixedGradient::Radial
FixedGradients ==
    {[kind |-> k[1], radius |-> k[2], stops |-> st] :
        k \in {<<"Linear", 0>>, <<"Radial", 1>>, <<"Radial", -1>>},
        st \in SeqsUpTo(GradientStops, MaxStops)}

NativeCreateRadialGradient(r0, r1) ==
    IF r0 < 0 \/ r1 < 0 THEN "IndexSizeError" ELSE "ok"

NativeAddColorStop(offset) ==
    IF offset < 0 \/ offset > 1 THEN "IndexSizeError" ELSE "ok"

\* let _ = dst.add_color_stop(..): a rejected stop is skipped silently;
\* the result is <<rc, the stops the native gradient holds>>
RECURSIVE set_gradient_stops(_, _, _, _)
set_gradient_stops(rc, dst, src, i) ==
    IF i > Len(src)
    THEN [rc |-> rc, dst |-> dst]
    ELSE LET stop == <<src[i].pos, format_color(src[i].color)>>
             r    == NativeAddColorStop(src[i].pos)
         IN  IF r = "ok"
             THEN set_gradient_stops(Call(rc, <<"add_color_stop", stop>>),
                                     Append(dst, stop), src, i + 1)
             ELSE set_gradient_stops(Failed(rc, <<"add_color_stop", stop>>, r),
                                     dst, src, i + 1)

gradient(rc, g) ==
    IF g.kind = "Linear"
    THEN LET lg == set_gradient_stops(Call(rc, <<"create_linear_gradient">>), <<>>, g.stops, 1)
         IN  [rc |-> lg.rc, res |-> <<"Ok", <<"Gradient", lg.dst>>>>]
    ELSE LET r == NativeCreateRadialGradient(0, g.radius)
         IN  IF r # "ok"
             THEN [rc  |-> Failed(rc, <<"create_radial_gradient", g.radius>>, r),
                   res |-> wrap(r)]
             ELSE LET rg == set_gradient_stops(
                                Call(rc, <<"create_radial_gradient", g.radius>>),
                                <<>>, g.stops, 1)
                  IN  [rc |-> rg.rc, res |-> <<"Ok", <<"Gradient", rg.dst>>>>]

capture_image_area(rc) == [rc |-> rc, res |-> <<"Unimplemented">>]

(***************************************************************************)
(* make_image: the pixel buffer is reformatted to straight RGBA8 and       *)
(* uploaded.                                                               *)
(***************************************************************************)
\* piet::util::unpremul: the channel divided by alpha, rounded, at most 255
unpremul(x, a) ==
    IF a = 0
    THEN 0
    ELSE LET y == (x * 255 + (a \div 2)) \div a
         IN  IF y > 255 THEN 255 ELSE y

\* the alpha byte of the new buffer is left at its initial 0
premul_byte_AlphaNotCopied(buf, i, k) ==
    LET a == buf[i * 4 + 3 + 1]
    IN  IF k = 4 THEN 0 ELSE unpremul(buf[i * 4 + (k - 1) + 1], a)

\* byte k (from 1) of pixel i (from 0) of the new buffer
premul_byte(buf, i, k) ==
    LET a == buf[i * 4 + 3 + 1]
    IN  IF k = 4 THEN a ELSE unpremul(buf[i * 4 + (k - 1) + 1], a)

rgb_byte(buf, i, k) == IF k = 4 THEN 255 ELSE buf[i * 3 + (k - 1) + 1]

grayscale_byte(buf, i, k) == IF k = 4 THEN 255 ELSE buf[i + 1]

\* the buffer handed to ImageData::new_with_u8_clamped_array
make_image_buf(width, height, buf, format) ==
    CASE format = "RgbaSeparate" -> buf
      [] format = "RgbaPremul" ->
            [j \in 1..(width * height * 4) |->
                premul_byte(buf, (j - 1) \div 4, ((j - 1) % 4) + 1)]
      [] format = "Rgb" ->
            [j \in 1..(width * height * 4) |->
                rgb_byte(buf, (j - 1) \div 4, ((j - 1) % 4) + 1)]
      [] format = "Grayscale" ->
            [j \in 1..(width * height * 4) |->
                grayscale_byte(buf, (j - 1) \div 4, ((j - 1) % 4) + 1)]
      [] OTHER -> <<>>

\* newRes, putRes: the results of the native ImageData constructor and of
\* put_image_data
make_image(rc, width, height, buf, format, newRes, putRes) ==
    LET data == make_image_buf(width, height, buf, format)
        c0   == Call(rc, <<"create_element", "canvas", width, height>>)
    IN  IF newRes # "ok"
        THEN [rc |-> Failed(c0, <<"ImageData", data, width>>, newRes), res |-> wrap(newRes)]
        ELSE LET c1 == Call(c0, <<"ImageData", data, width>>)
             IN  IF putRes # "ok"
                 THEN [rc  |-> Failed(c1, <<"put_image_data">>, putRes),
                       res |-> wrap(putRes)]
                 ELSE [rc  |-> Call(c1, <<"put_image_data">>),
                       res |-> <<"Ok", [width |-> width, height |-> height]>>]

\* pixels the buffers are made of, per format
PixelsOf(format) ==
    CASE format \in {"RgbaSeparate", "RgbaPremul"} ->
            { <<200, 100, 0, 255>>, <<100, 50, 0, 128>>, <<0, 0, 0, 0>> }
      [] format = "Rgb" -> { <<0, 0, 0>>, <<200, 100, 0>> }
      [] format = "Grayscale" -> { <<0>>, <<77>> }

ImageFormats == {"RgbaSeparate", "RgbaPremul", "Rgb", "Grayscale"}

RECURSIVE Flatten(_)
Flatten(pixels) ==
    IF pixels = <<>> THEN <<>> ELSE Head(pixels) \o Flatten(Tail(pixels))

\* width, height, a buffer of exactly width * height pixels, format
ImageInputs ==
    UNION { UNION { { [width |-> d[1], height |-> d[2], buf |-> Flatten(px), format |-> f] :
                        px \in [1..(d[1] * d[2]) -> PixelsOf(f)] } :
                    f \in ImageFormats } :
            d \in {e \in (1..MaxPixels) \X (1..MaxPixels) : e[1] * e[2] <= MaxPixels} }

(***************************************************************************)
(* The actions: one per operation of the render context.                   *)
(***************************************************************************)
\* the operation returns (or panics): the fields of self are stored back
OpKind(op) == IF op = "stroke_styled" THEN "stroke" ELSE op

Commit(rc, op, data, res) ==
    /\ canvas_states' = rc.canvas_states
    /\ err' = rc.err
    /\ ctx' = rc.ctx
    /\ aborted' = rc.panicked
    /\ last' = [ op     |-> op,
                 data   |-> data,
                 result |-> IF rc.panicked THEN <<"panic">> ELSE res,
                 calls  |-> rc.calls,
                 fails  |-> rc.fails,
                 repeat |-> /\ OpKind(op) = "stroke"
                            /\ OpKind(last.op) = "stroke"
                            /\ last.data = data ]

Unit == <<"unit">>

Save ==
    /\ ~aborted
    /\ Len(canvas_states) < MaxDepth
    /\ LET r == save(Self) IN Commit(r.rc, "save", <<>>, r.res)

Restore ==
    /\ ~aborted
    /\ LET r == restore(Self)
       IN  Commit(r.rc, "restore",
                  SubSeq(canvas_states, Len(r.rc.canvas_states) + 1, Len(canvas_states)),
                  r.res)

Status ==
    /\ ~aborted
    /\ LET r == status(Self) IN Commit(r.rc, "status", <<>>, r.res)

Finish ==
    /\ ~aborted
    /\ LET r == finish(Self) IN Commit(r.rc, "finish", <<>>, r.res)

Fill ==
    /\ ~aborted
    /\ \E shape \in Shapes, brush \in Brushes :
          Commit(fill(Self, shape, brush), "fill", <<shape, brush>>, Unit)

FillEvenOdd ==
    /\ ~aborted
    /\ \E shape \in Shapes, brush \in Brushes :
          Commit(fill_even_odd(Self, shape, brush), "fill_even_odd", <<shape, brush>>, Unit)

Clip ==
    /\ ~aborted
    /\ \E shape \in Shapes : Commit(clip(Self, shape), "clip", <<shape>>, Unit)

Stroke ==
    /\ ~aborted
    /\ \E shape \in Shapes, brush \in StrokeBrushes, width \in StrokeWidths,
          dashRes \in CallResults :
          Commit(stroke(Self, shape, brush, width, dashRes), "stroke",
                 <<width, StrokeStyleDefault>>, Unit)

StrokeStyled ==
    /\ ~aborted
    /\ \E shape \in Shapes, brush \in StrokeBrushes, in \in StyledInputs, dashRes \in CallResults :
          Commit(stroke_styled(Self, shape, brush, in[1], in[2], dashRes), "stroke_styled",
                 <<in[1], in[2]>>, Unit)

\* stroke_styled() with a width or style of UnstoredInputs
StrokeStyledUnstored ==
    /\ ~aborted
    /\ \E shape \in Shapes, brush \in StrokeBrushes, in \in UnstoredInputs,
          dashRes \in CallResults :
          Commit(stroke_styled(Self, shape, brush, in[1], in[2], dashRes), "stroke_styled",
                 <<in[1], in[2]>>, Unit)

DrawText ==
    /\ ~aborted
    /\ \E lineRes \in SeqsUpTo(NativeResults, MaxLines) :
          Commit(draw_text(Self, TextColor, lineRes), "draw_text", <<Len(lineRes)>>, Unit)

DrawImage ==
    /\ ~aborted
    /\ \E image \in Images, dst \in Shapes, drawRes \in NativeResults :
          Commit(draw_image(Self, image, <<>>, dst, drawRes), "draw_image", <<dst>>, Unit)

DrawImageArea ==
    /\ ~aborted
    /\ \E image \in Images, src \in Shapes, dst \in Shapes, drawRes \in NativeResults :
          Commit(draw_image(Self, image, <<src>>, dst, drawRes), "draw_image_area",
                 <<src, dst>>, Unit)

Transform ==
    /\ ~aborted
    /\ \E a \in Affines, res \in CallResults :
          Commit(transform(Self, a, res), "transform", <<a>>, Unit)

CurrentTransform ==
    /\ ~aborted
    /\ \E res \in CallResults :
          LET r == current_transform(Self, res)
          IN  Commit(r.rc, "current_transform", <<>>, r.res)

Clear ==
    /\ ~aborted
    /\ \E region \in {<<>>} \cup {<<sh>> : sh \in Shapes}, color \in Colors,
          canvas \in {<<>>} \cup {<<c>> : c \in CanvasElements} :
          Commit(clear(Self, region, color, canvas), "clear", <<region, color, canvas>>, Unit)

BlurredRect ==
    /\ ~aborted
    /\ \E rect \in Shapes, brush \in Brushes :
          Commit(blurred_rect(Self, rect, 3, brush), "blurred_rect", <<rect, brush>>, Unit)

Gradient ==
    /\ ~aborted
    /\ \E g \in FixedGradients :
          LET r == gradient(Self, g) IN Commit(r.rc, "gradient", g, r.res)

CaptureImageArea ==
    /\ ~aborted
    /\ LET r == capture_image_area(Self) IN Commit(r.rc, "capture_image_area", <<>>, r.res)

MakeImage ==
    /\ ~aborted
    /\ \E in \in ImageInputs, newRes \in CallResults, putRes \in CallResults :
          LET r == make_image(Self, in.width, in.height, in.buf, in.format, newRes, putRes)
          IN  Commit(r.rc, "make_image", in, r.res)

Next ==
    \/ Save
    \/ Restore
    \/ Status
    \/ Finish
    \/ Fill
    \/ FillEvenOdd
    \/ Clip
    \/ Stroke
    \/ StrokeStyled
    \/ DrawText
    \/ DrawImage
    \/ DrawImageArea
    \/ Transform
    \/ CurrentTransform
    \/ Clear
    \/ BlurredRect

Spec == Init /\ [][Next]_vars

\* the stroke state alone: save, restore and the two stroke operations
NextStroke ==
    \/ Save
    \/ Restore
    \/ Stroke
    \/ StrokeStyled

SpecStroke == Init /\ [][NextStroke]_vars

\* save and restore among the drawing operations and status
NextOps ==
    \/ Save
    \/ Restore
    \/ Fill
    \/ Stroke
    \/ Clip
    \/ DrawText
    \/ DrawImage
    \/ DrawImageArea
    \/ Clear
    \/ BlurredRect
    \/ Status

SpecOps == Init /\ [][NextOps]_vars

\* the error slot: the operations that write it, read it or run between
NextDraw ==
    \/ Save
    \/ Restore
    \/ Status
    \/ Finish
    \/ DrawText
    \/ DrawImage
    \/ DrawImageArea
    \/ Transform
    \/ Fill

SpecDraw == Init /\ [][NextDraw]_vars

\* draw_image and draw_image_area on a surface whose stroke state,
\* transform, clip and save depth vary
NextDrawImage ==
    \/ Save
    \/ Restore
    \/ Stroke
    \/ Transform
    \/ Clip
    \/ DrawImage
    \/ DrawImageArea

SpecDrawImage == Init /\ [][NextDrawImage]_vars

\* the operations that return a Result for a resource, on a context whose
\* stack and error slot vary
NextBrush ==
    \/ Gradient
    \/ CaptureImageArea
    \/ Save
    \/ Restore
    \/ DrawImage
    \/ Status

SpecBrush == Init /\ [][NextBrush]_vars

\* clear among the operations that change the stack and the error slot
NextClear ==
    \/ Save
    \/ Restore
    \/ Clear
    \/ Fill
    \/ Stroke
    \/ DrawImage
    \/ Status

SpecClear == Init /\ [][NextClear]_vars

\* the operations that leave the context usable, with strokes of every
\* width and style of StrokeWidths, StyledInputs and UnstoredInputs
NextSnapshot ==
    \/ Save
    \/ Restore
    \/ Stroke
    \/ StrokeStyled
    \/ StrokeStyledUnstored
    \/ Fill
    \/ Clip
    \/ DrawText
    \/ DrawImage
    \/ Clear
    \/ BlurredRect

SpecSnapshot == Init /\ [][NextSnapshot]_vars

\* make_image alone, over every input of ImageInputs
NextImage == MakeImage

SpecImage == Init /\ [][NextImage]_vars

(***************************************************************************)
(* Properties.                                                             *)
(***************************************************************************)
\* the names of the native calls an operation made, in order
CallNames(calls) == [i \in 1..Len(calls) |-> calls[i][1]]

CountCalls(calls, name) == Cardinality({i \in 1..Len(calls) : calls[i][1] = name})

LastOf(q) == q[Len(q)]

\* the native setters of the stroke state
StrokeSetters ==
    { "set_line_width", "set_line_join", "set_miter_limit", "set_line_cap",
      "set_line_dash", "set_line_dash_offset" }

StrokeSetterCalls(calls) == {i \in 1..Len(calls) : calls[i][1] \in StrokeSetters}

\* C1: canvas_states always holds at least one entry, and a restore() at a
\* stack of exactly one entry returns Ok, leaves the stack and the native
\* surface as they were and makes no native call.
C1_RestoreAtBaseIsNoop ==
    [][ /\ Len(canvas_states) >= 1
        /\ Len(canvas_states') >= 1
        /\ (Len(canvas_states) = 1 /\ last'.op = "restore")
              => /\ last'.result = Ok
                 /\ canvas_states' = canvas_states
                 /\ ctx' = ctx
                 /\ last'.calls = <<>> ]_vars

\* a restore() that found only the base entry, after a save/restore pair
C1_Witness ==
    /\ last.op = "restore"
    /\ last.calls = <<>>
    /\ Len(canvas_states) = 1
    /\ ~aborted

StatusOps == {"status", "finish"}

DeferringOps == {"draw_text", "draw_image", "draw_image_area"}

\* C2: status() and finish() return what the slot holds and clear it; an
\* operation in which no native call fails leaves the slot as it was; a
\* draw_text, draw_image or draw_image_area in which a native call fails
\* leaves its (last) failure in the slot, whatever the slot held.
C2_StatusTakesLastFailure ==
    [][ /\ last'.op \in StatusOps
           => last'.result = err /\ err' = Ok
        /\ (last'.op \notin StatusOps /\ last'.fails = <<>>)
           => err' = err
        /\ (last'.op \in DeferringOps /\ last'.fails # <<>>)
           => err' = wrap(LastOf(last'.fails)) ]_vars

\* a status() that returned a failure and emptied the slot
C2_Witness ==
    /\ last.op = "status"
    /\ last.result \in {wrap(e) : e \in JsErrors}
    /\ err = Ok

StrokeOps == {"stroke", "stroke_styled"}

\* C3: once the restore() matching a save() has brought the stack back to
\* the base entry, which holds the defaults, a stroke() of width 1 is drawn
\* with the native line width, cap, join, miter limit, dash pattern and dash
\* offset at their defaults, whatever was stroked inside the save scope.
C3_StrokeAfterRestoreUsesDefaults ==
    [][ ( /\ last.op = "restore"
          /\ last.data # <<>>
          /\ Len(canvas_states) = 1
          /\ canvas_states[1] = CanvasStateDefault
          /\ last'.op = "stroke"
          /\ last'.data[1] = 1 )
        => /\ ~aborted'
           /\ LastOf(last'.calls) = <<"stroke">>
           /\ NativeStroke(ctx'.cur) = <<1, "butt", "miter", 10, <<>>, 0>> ]_vars

\* the restore() has just popped a snapshot of width 5 with a round cap,
\* back to a base entry that holds the defaults
C3_Witness ==
    /\ last.op = "restore"
    /\ last.data # <<>>
    /\ last.data[1].line_width = 5
    /\ last.data[1].line_cap = "Round"
    /\ Len(canvas_states) = 1
    /\ canvas_states[1] = CanvasStateDefault

\* width, miter limit, dash lengths or dash offset of a stroke request is NaN
RequestHasNaN(data) ==
    \/ IsNaN(data[1])
    \/ data[2].line_join[1] = "Miter" /\ IsNaN(data[2].line_join[2])
    \/ \E i \in 1..Len(data[2].dash_pattern) : IsNaN(data[2].dash_pattern[i])
    \/ IsNaN(data[2].dash_offset)

\* C4 as claimed: a stroke that repeats the width and style of the stroke
\* just before it issues no native stroke-state setter call.
C4_RepeatedStrokeSetsNothing ==
    (last.op \in StrokeOps /\ last.repeat) => StrokeSetterCalls(last.calls) = {}

HasCall(calls, name) == \E i \in 1..Len(calls) : calls[i][1] = name

\* C4, amended: a stroke that repeats the width and style of the stroke just
\* before it, none of whose width, miter limit, dash lengths and dash offset
\* is NaN, issues no native stroke-state setter call; and a stroke calls a
\* native setter only for a parameter that compares unequal to the snapshot
\* on top of the stack.
C4_RepeatedStrokeWithoutNaNSetsNothing ==
    /\ [] ( (last.op \in StrokeOps /\ last.repeat /\ ~RequestHasNaN(last.data))
              => StrokeSetterCalls(last.calls) = {} )
    /\ [][ last'.op \in StrokeOps =>
             LET top   == Top(canvas_states)
                 width == last'.data[1]
                 style == last'.data[2]
                 calls == last'.calls
             IN  /\ HasCall(calls, "set_line_width") => F64Ne(width, top.line_width)
                 /\ HasCall(calls, "set_line_join")
                       => LineJoinNe(style.line_join, top.line_join)
                 /\ HasCall(calls, "set_miter_limit")
                       => LineJoinNe(style.line_join, top.line_join)
                 /\ HasCall(calls, "set_line_cap") => style.line_cap # top.line_cap
                 /\ HasCall(calls, "set_line_dash")
                       => SliceNe(style.dash_pattern, top.line_dash)
                 /\ HasCall(calls, "set_line_dash_offset")
                       => F64Ne(style.dash_offset, top.line_dash_offset) ]_vars

\* a dashed stroke with a miter limit, repeated, has been drawn
C4_Witness ==
    /\ last.op = "stroke_styled"
    /\ last.repeat
    /\ last.data = <<2, DashedStyle>>
    /\ LastOf(last.calls) = <<"stroke">>
    /\ ~aborted

ImageOps == {"draw_image", "draw_image_area"}

\* C5: the native surface holds one saved state per entry of canvas_states
\* above the base; save() makes one native save and pushes one entry, a
\* restore() above the base makes one native restore and pops one entry, and
\* draw_text, draw_image and draw_image_area make one native save and one
\* native restore and leave both depths as they found them.
C5_StacksInLockStep ==
    /\ [] (Len(ctx.stack) = Len(canvas_states) - 1)
    /\ [][ /\ last'.op = "save"
              => /\ CallNames(last'.calls) = <<"save">>
                 /\ Len(canvas_states') = Len(canvas_states) + 1
                 /\ Len(ctx'.stack) = Len(ctx.stack) + 1
           /\ (last'.op = "restore" /\ Len(canvas_states) > 1)
              => /\ CallNames(last'.calls) = <<"restore">>
                 /\ Len(canvas_states') = Len(canvas_states) - 1
                 /\ Len(ctx'.stack) = Len(ctx.stack) - 1
           /\ last'.op \in DeferringOps
              => /\ CountCalls(last'.calls, "save") = 1
                 /\ CountCalls(last'.calls, "restore") = 1
                 /\ Len(canvas_states') = Len(canvas_states)
                 /\ Len(ctx'.stack) = Len(ctx.stack) ]_vars

\* an image whose native draw failed has been drawn inside a save scope
C5_Witness ==
    /\ last.op = "draw_image"
    /\ last.fails # <<>>
    /\ Len(canvas_states) = 2
    /\ Len(ctx.stack) = 1

\* C6: draw_text, draw_image and draw_image_area return unit and do not
\* panic; when native calls fail in them the slot holds the last of these
\* failures afterwards, whatever it held before; when none fails the slot is
\* left as it was.
C6_DrawFailuresAreDeferred ==
    [][ last'.op \in DeferringOps
        => /\ ~aborted'
           /\ last'.result = Unit
           /\ last'.fails = <<>> => err' = err
           /\ last'.fails # <<>> => err' = wrap(LastOf(last'.fails)) ]_vars

\* a text of two lines, both failing with different errors, has been drawn
C6_Witness ==
    /\ last.op = "draw_text"
    /\ Len(last.fails) = 2
    /\ last.fails[1] # last.fails[2]
    /\ err = wrap(last.fails[2])

\* C7: draw_image and draw_image_area leave canvas_states and the native
\* surface (drawing state and saved states) as they found them, whether the
\* native draw succeeds or fails; the native calls are save, the draw, and
\* restore.
C7_DrawImageRestoresState ==
    [][ last'.op \in ImageOps
        => /\ canvas_states' = canvas_states
           /\ ctx' = ctx
           /\ CallNames(last'.calls) = <<"save", "draw_image", "restore">> ]_vars

\* a failed draw_image_area on a flipped, clipped surface inside a save scope
C7_Witness ==
    /\ last.op = "draw_image_area"
    /\ last.fails # <<>>
    /\ ctx.cur.transform = AffineFlipX
    /\ ctx.cur.clip # {}
    /\ Len(canvas_states) = 2
    /\ canvas_states[2] # canvas_states[1]
    /\ ctx.stack[1] # ctx.cur

\* C8 as claimed: when a native call fails in an operation, the operation
\* does not abort and the slot holds that failure for the next status().
C8_NativeFailureIsCaptured ==
    last.fails # <<>> => (~aborted /\ err = wrap(LastOf(last.fails)))

\* C9 as claimed: gradient() returns an error, without panicking, when the
\* native gradient API rejects a call, and a gradient it returns holds every
\* stop of the specification, in order.
C9_GradientFailsWhenRejected ==
    last.op = "gradient"
        => /\ ~aborted
           /\ last.fails # <<>> => last.result = wrap(LastOf(last.fails))
           /\ last.result[1] = "Ok"
                 => last.result[2][2] =
                       [i \in 1..Len(last.data.stops) |->
                           <<last.data.stops[i].pos, format_color(last.data.stops[i].color)>>]

\* every pixel of an RGBA8 buffer has alpha 255
AllOpaque(buf) == \A i \in 1..Len(buf) : i % 4 = 0 => buf[i] = 255

\* the buffer make_image handed to the native ImageData constructor
Uploaded(calls) == calls[CHOOSE i \in 1..Len(calls) : calls[i][1] = "ImageData"][2]

\* C10: for a buffer of width * height RGBA8 pixels that all have alpha 255,
\* make_image with format RgbaPremul uploads the bytes that make_image with
\* format RgbaSeparate uploads, which are the bytes of the buffer.
C10_OpaquePremulEqualsSeparate ==
    ( /\ last.op = "make_image"
      /\ last.data.format = "RgbaPremul"
      /\ Len(last.data.buf) = last.data.width * last.data.height * 4
      /\ AllOpaque(last.data.buf) )
    => /\ Uploaded(last.calls) =
             make_image_buf(last.data.width, last.data.height, last.data.buf, "RgbaSeparate")
       /\ Uploaded(last.calls) = last.data.buf

\* an opaque, coloured RgbaPremul buffer of two pixels has been uploaded
C10_Witness ==
    /\ last.op = "make_image"
    /\ last.data.format = "RgbaPremul"
    /\ Len(last.data.buf) = 8
    /\ AllOpaque(last.data.buf)
    /\ last.data.buf[1] = 200
    /\ last.result[1] = "Ok"

\* the native calls that fill the rectangle <<x0, y0, x1, y1>> with the
\* nonzero rule and the fill style the colour's CSS form
NonzeroFillOf(rect, color) ==
    << <<"begin_path">>,
       <<"move_to", rect[1], rect[2]>>,
       <<"line_to", rect[3], rect[2]>>,
       <<"line_to", rect[3], rect[4]>>,
       <<"line_to", rect[1], rect[4]>>,
       <<"close_path">>,
       <<"set_fill_style", format_color(color)>>,
       <<"fill", "nonzero">> >>

\* the calls of an operation other than the query of the canvas element
DrawingCalls(calls) == SelectSeq(calls, LAMBDA c : c[1] # "canvas")

\* C11: clear(region, color) with the canvas element attached issues the
\* nonzero-rule fill, with a solid brush of color, of the region, or of
\* (0, 0, offset width, offset height) when no region is given; with no
\* canvas element it issues no native drawing call and leaves the stack,
\* the error slot and the native surface as they were, region or not.
C11_ClearFillsRegionOrCanvas ==
    [][ last'.op = "clear" =>
          LET region == last'.data[1]
              color  == last'.data[2]
              canvas == last'.data[3]
          IN  /\ (canvas # <<>> /\ region = <<>>)
                 => DrawingCalls(last'.calls) =
                       NonzeroFillOf(<<0, 0, canvas[1].offset_width,
                                       canvas[1].offset_height>>, color)
              /\ (canvas # <<>> /\ region # <<>>)
                 => DrawingCalls(last'.calls) = NonzeroFillOf(region[1], color)
              /\ canvas = <<>>
                 => /\ DrawingCalls(last'.calls) = <<>>
                    /\ canvas_states' = canvas_states
                    /\ err' = err
                    /\ ctx' = ctx ]_vars

\* a clear with no region on the attached 200 x 100 canvas, below a save and
\* with a failure waiting in the slot
C11_Witness ==
    /\ last.op = "clear"
    /\ last.data[1] = <<>>
    /\ last.data[3] = <<CanvasElement>>
    /\ HasCall(last.calls, "fill")
    /\ Len(canvas_states) = 2
    /\ err # Ok

\* a clear with a region on a context whose canvas element is detached
C11_WitnessDetached ==
    /\ last.op = "clear"
    /\ last.data[1] # <<>>
    /\ last.data[3] = <<>>
    /\ Len(canvas_states) = 2
    /\ err # Ok

\* a snapshot equals a native drawing state in every stroke parameter
SnapshotEqualsNative(s, d) ==
    /\ s.line_width = d.lineWidth
    /\ convert_line_cap(s.line_cap) = d.lineCap
    /\ convert_line_join(s.line_join) = d.lineJoin
    /\ s.line_join[1] = "Miter" => s.line_join[2] = d.miterLimit
    /\ s.line_dash = d.lineDash
    /\ s.line_dash_offset = d.lineDashOffset

\* a stroke operation leaves the entries below the top, and the native
\* states saved for them, as they were
StrokeKeepsLowerEntries ==
    [][ last'.op \in StrokeOps =>
          /\ Len(canvas_states') = Len(canvas_states)
          /\ SubSeq(canvas_states', 1, Len(canvas_states) - 1)
                = SubSeq(canvas_states, 1, Len(canvas_states) - 1)
          /\ ctx'.stack = ctx.stack ]_vars

\* C12 as claimed: the snapshot on top of canvas_states equals the current
\* stroke state of the native surface, every entry below it equals the
\* native state saved at its level, and a stroke changes the top entry only.
C12_SnapshotEqualsNativeState ==
    /\ [] ( /\ Len(ctx.stack) = Len(canvas_states) - 1
            /\ SnapshotEqualsNative(Top(canvas_states), ctx.cur)
            /\ \A i \in 1..Len(ctx.stack) :
                  SnapshotEqualsNative(canvas_states[i], ctx.stack[i]) )
    /\ StrokeKeepsLowerEntries

\* the values the canvas stores as they are given
StoredAsGiven(v) == ~IsNaN(v) /\ v > 0

DashStoredAsGiven(p) ==
    /\ Len(p) % 2 = 0
    /\ \A i \in 1..Len(p) : ~IsNaN(p[i]) /\ p[i] >= 0

\* a snapshot equals a native drawing state in the cap, in the kind of the
\* join, and in every other parameter whose value in the snapshot is one
\* the canvas stores as given
SnapshotMatchesNative(s, d) ==
    /\ StoredAsGiven(s.line_width) => s.line_width = d.lineWidth
    /\ convert_line_cap(s.line_cap) = d.lineCap
    /\ convert_line_join(s.line_join) = d.lineJoin
    /\ (s.line_join[1] = "Miter" /\ StoredAsGiven(s.line_join[2]))
          => s.line_join[2] = d.miterLimit
    /\ DashStoredAsGiven(s.line_dash) => s.line_dash = d.lineDash
    /\ ~IsNaN(s.line_dash_offset) => s.line_dash_offset = d.lineDashOffset

\* C12, amended: the snapshot on top of canvas_states equals the current
\* stroke state of the native surface in the line cap, in the kind of the
\* line join, and in the width, miter limit (of a miter join), dash pattern
\* and dash offset whenever the value the snapshot holds is one the canvas
\* stores as given; every entry below the top relates in the same way to
\* the native state saved at its level; a stroke changes the top entry only.
C12_SnapshotMatchesNativeState ==
    /\ [] ( /\ Len(ctx.stack) = Len(canvas_states) - 1
            /\ SnapshotMatchesNative(Top(canvas_states), ctx.cur)
            /\ \A i \in 1..Len(ctx.stack) :
                  SnapshotMatchesNative(canvas_states[i], ctx.stack[i]) )
    /\ StrokeKeepsLowerEntries

\* above a saved entry of width 5, a dashed stroke of width zero has been
\* drawn: the snapshot and the canvas agree on the dash pattern, which the
\* stroke has set, and the canvas keeps the width 5 that the snapshot lost
C12_Witness ==
    /\ Len(canvas_states) = 2
    /\ canvas_states[1].line_width = 5
    /\ ctx.stack[1].lineWidth = 5
    /\ last.op = "stroke_styled"
    /\ last.data[1] = 0
    /\ HasCall(last.calls, "set_line_dash")
    /\ Top(canvas_states).line_width = 0
    /\ ctx.cur.lineWidth = 5
    /\ Top(canvas_states).line_dash = <<2, 1>>
    /\ ctx.cur.lineDash = <<2, 1>>
    /\ ~aborted

\* the snapshot holds a dash pattern of one length and the canvas that
\* pattern twice
C12_WitnessOddDash ==
    /\ Top(canvas_states).line_dash = <<3>>
    /\ ctx.cur.lineDash = <<3, 3>>
    /\ Top(canvas_states).line_dash_offset = ctx.cur.lineDashOffset
    /\ ~aborted

=============================================================================
